---- MODULE Spec2Model ----
(***************************************************************************)
(* A model of the coroutine runtime of templates/include/asyncops.hpp:     *)
(* Task<T>, Task<void>, SyncWaitTask<T>, sync_wait(), Generator<T> and     *)
(* GeneratorFactory<T, N>.                                                 *)
(*                                                                         *)
(* A scenario is a small tree of task bodies (the client code that the    *)
(* header's templates are instantiated with): every body optionally        *)
(* reschedules itself onto a second thread, awaits its children in order,  *)
(* and ends in co_return or in a throw.  The non-coroutine caller builds   *)
(* the root task and passes it to sync_wait().                             *)
(*                                                                         *)
(* Generator<T> and GeneratorFactory<T, N> have specifications of their    *)
(* own: GenSpec runs a consumer against a Generator<int> whose body yields *)
(* a few values and then ends or throws; FacSpec runs a consumer against   *)
(* the generator of GeneratorFactory::generate(), with the pools and the   *)
(* objects std::make_shared allocates.                                     *)
(*                                                                         *)
(* Further specifications: Fac2Spec (two generators of one factory),      *)
(* LoopSpec (generate() one loop iteration a step, N from 0), OwnSpec      *)
(* (construction, move and destruction of the handle-owning objects),      *)
(* ResumeSpec (a task driven by handle.resume()), MainSpec (main() of      *)
(* main.cpp) and HexSpec (convert::decimal_to_hexadecimal of               *)
(* templates/utilities.hpp).                                               *)
(***************************************************************************)
EXTENDS Integers, Sequences, FiniteSets, TLC

\* ------------------------------------------------------------- bounds
\* the tasks of a scenario
MaxTasks == 3
\* the completed tasks observed a second time in a scenario
MaxReobserved == 1
\* the values a finite generator body yields
MaxYields == 2
\* the resumptions of a generator in a scenario
MaxResumptions == 5
\* number_of_objects_in_each_pool of the factories of the scenarios
MaxPoolSize == 4
\* the handle-owning objects of an ownership scenario
MaxObjects == 3
\* the coroutine frames of an ownership scenario
MaxFrames == 2
\* the greatest argc main() is entered with
MaxArgc == 3
\* the greatest argument of decimal_to_hexadecimal
MaxHexInput == 300

\* ---------------------------------------------------------- constants
\* a null std::exception_ptr; exception objects are numbered from 1
NoException == 0

Tasks == 1..MaxTasks
Root == 1
\* the helper coroutine of sync_wait (the lambda `coro`)
Helper == 0
\* a default-constructed std::coroutine_handle<>
NullHandle == MaxTasks + 1
\* std::bad_variant_access, thrown by std::get on the wrong alternative
BadVariantAccess == MaxTasks + 1
\* operands of co_return in the task bodies
Values == {10, 32}
Threads == {"main", "worker"}

VARIABLES
    prog,       \* the scenario: per task its place in the tree and its body
    st,         \* per task: the state of its coroutine frame
    pc,         \* per task: index of the next instruction of its body
    acc,        \* per task: the sum of the values its awaits produced
    named,      \* per task: held in a local variable of its parent's body
    promise,    \* per task: promise_type {result, e, continuation}
    hst,        \* state of the helper coroutine frame
    hp,         \* SyncWaitTask::promise_type {value, error, sema4}
    htmp,       \* the operand temporary of the helper's co_yield
    stack,      \* per thread: the coroutines being run, innermost first
    ready,      \* coroutines handed to the worker thread for resumption
    mainpc,     \* position of the non-coroutine caller
    outcome,    \* what sync_wait gave its caller
    returned,   \* history: per task, how its body ended
    obs,        \* history: per task, the outcomes of await_resume on it
    resumes,    \* history: per task, how often its continuation was resumed
    log         \* history: the order of awaits, completions and resumptions

\* the state of Task, SyncWaitTask and sync_wait
taskVars == <<prog, st, pc, acc, named, promise, hst, hp, htmp, stack, ready,
              mainpc, outcome, returned, obs, resumes, log>>

VARIABLES
    gprog,      \* the generator scenario: the body the Generator runs
    g,          \* the coroutine of the Generator: frame state and Promise
    proc,       \* the process: alive, terminated, or past undefined behaviour
    fac,        \* GeneratorFactory {m_pools, m_object_counter}
    heap,       \* the objects made by std::make_shared, by address
    held,       \* the shared_ptr copies the consumer keeps, by address
    forpc,      \* position of the consumer's range-for loop
    glast,      \* history: the last Generator operation and its outcome
    gpulled,    \* history: the outcomes of the get_next_value() calls
    gyielded,   \* history: the values the body yielded
    gvisited,   \* history: the values the range-for loop visited
    gres        \* history: the resumptions of the coroutine: how many, and
                \* how many of them and how many yields the range-for loop
                \* found done when it began

\* the state of Generator and GeneratorFactory
genVars == <<gprog, g, proc, fac, heap, held, forpc, glast, gpulled,
             gyielded, gvisited, gres>>

VARIABLES
    other,      \* the coroutine of a second Generator made by the same
                \* GeneratorFactory: the one the consumer is not driving
    loop,       \* generate() seen one loop iteration at a time: whether a
                \* resumption is under way, and the pools it has allocated
    own,        \* the handle-owning objects (Task, SyncWaitTask, Generator)
                \* and the coroutine frames their handles refer to
    cli,        \* main(): its arguments and environment, its position,
                \* what it has created and what it returned
    hex         \* convert::decimal_to_hexadecimal: the argument and the
                \* characters returned

\* the state only the further specifications use
extVars == <<other, loop, own, cli, hex>>

vars == <<prog, st, pc, acc, named, promise, hst, hp, htmp, stack, ready,
          mainpc, outcome, returned, obs, resumes, log,
          gprog, g, proc, fac, heap, held, forpc, glast, gpulled,
          gyielded, gvisited, gres,
          other, loop, own, cli, hex>>

\* ------------------------------------------------------------ outcomes
Val(v) == [kind |-> "val", v |-> v]
Exc(e) == [kind |-> "exc", v |-> e]
Void == [kind |-> "void", v |-> 0]
Undefined == [kind |-> "ub", v |-> 0]
None == [kind |-> "none", v |-> 0]

\* ------------------------------------------------------------ scenario
\* a value that names no task (the helper is not a task)
NoTask == Helper

RECURSIVE SetToSeq(_)
SetToSeq(S) ==
    IF S = {} THEN <<>>
    ELSE LET m == CHOOSE x \in S : \A y \in S : x <= y
         IN <<m>> \o SetToSeq(S \ {m})

\* A task body as a sequence of instructions: an optional reschedule, the
\* awaits of its children in the order the children are numbered, and a
\* co_return or a throw.
BodyOf(hop, kids, term) ==
    (IF hop THEN <<[op |-> "hop", c |-> 0]>> ELSE <<>>)
    \o [i \in 1..Cardinality(kids) |-> [op |-> "await", c |-> SetToSeq(kids)[i]]]
    \o <<[op |-> term.op, c |-> term.k]>>

Unused == [used |-> FALSE, parent |-> NoTask, catch |-> FALSE,
           kind |-> "value", kids |-> {},
           body |-> BodyOf(FALSE, {}, [op |-> "ret", k |-> 0])]

\* The await trees over tasks 1..n: the root is awaited by the helper, any
\* other task is unused or awaited by one earlier task of the tree (a task
\* awaits only tasks made after it began executing).
RECURSIVE Shapes(_)
Shapes(n) ==
    IF n = 1 THEN {<<[used |-> TRUE, parent |-> Helper]>>}
    ELSE UNION { { Append(sh, x) :
                     x \in {[used |-> FALSE, parent |-> NoTask]}
                           \cup {[used |-> TRUE, parent |-> q] :
                                    q \in {r \in 1..(n - 1) : sh[r].used}} } :
                 sh \in Shapes(n - 1) }

UsedTasks(sh) == {t \in Tasks : sh[t].used}

ShapeKids(sh, t) == {c \in Tasks : c # Root /\ sh[c].used /\ sh[c].parent = t}

\* the tasks from t up to the root, the root left out
RECURSIVE PathUp(_, _)
PathUp(sh, t) ==
    IF t = Root \/ t = NoTask THEN {} ELSE {t} \cup PathUp(sh, sh[t].parent)

\* the constants the bodies that await nothing return: 10, but for at most
\* one of them
LeafValues(sh, thrower, voidTask) ==
    { lv \in [Tasks -> Values] :
        \A t \in Tasks :
            \/ lv[t] = 10
            \/ /\ sh[t].used /\ t # thrower /\ t # voidTask
               /\ ShapeKids(sh, t) = {}
               /\ \A u \in Tasks \ {t} : lv[u] = 10 }

\* The bodies of a scenario.  At most one body throws (after its awaits), at
\* most one co_await on the way from it to the root is inside a try block,
\* at most one body reschedules itself onto the worker thread, at most one
\* task is a Task<void>; a body that awaits returns the sum of what it
\* awaited, a body that awaits nothing returns a constant.
Scenario(sh, thrower, catcher, hopper, voidTask, lv) ==
    [t \in Tasks |->
        IF ~sh[t].used THEN Unused
        ELSE [used |-> TRUE,
              parent |-> sh[t].parent,
              catch |-> (t = catcher),
              kind |-> IF t = voidTask THEN "void" ELSE "value",
              kids |-> ShapeKids(sh, t),
              body |-> BodyOf(t = hopper, ShapeKids(sh, t),
                              IF t = thrower THEN [op |-> "throw", k |-> 0]
                              ELSE IF t = voidTask \/ ShapeKids(sh, t) # {}
                                   THEN [op |-> "ret", k |-> 0]
                                   ELSE [op |-> "ret", k |-> lv[t]])]]

Kids(t) == prog[t].kids

Body(t) == prog[t].body

\* the co_return or throw that ends the body of t
Term(t) == Body(t)[Len(Body(t))]

\* the body of t reschedules itself onto the worker thread
Hops(t) == Body(t)[1].op = "hop"

Instr(t) == Body(t)[pc[t]]

\* ----------------------------------------------- Task<T>::promise_type
FreshPromise ==
    [result |-> [index |-> 0, val |-> 0, err |-> NoException, moved |-> FALSE],
     e |-> NoException,
     continuation |-> NullHandle]

\* mutant: a task that starts running when it is made
initial_suspend_never == "suspend_never"

\* promise_type::initial_suspend of Task<T> and Task<void>
initial_suspend == "suspend_always"

\* mutant: emplace<1>() without the value
Task_return_value_default(p, value) ==
    [p EXCEPT !.result = [index |-> 1, val |-> 0, err |-> NoException,
                          moved |-> FALSE]]

Task_return_value(p, value) ==
    [p EXCEPT !.result = [index |-> 1, val |-> value, err |-> NoException,
                          moved |-> FALSE]]

\* mutant: an unhandled_exception that keeps nothing
Task_unhandled_exception_unset(p, ex) == p

Task_unhandled_exception(p, ex) ==
    [p EXCEPT !.result = [index |-> 2, val |-> 0, err |-> ex, moved |-> FALSE]]

TaskVoid_return_void(p) == p

TaskVoid_unhandled_exception(p, ex) == [p EXCEPT !.e = ex]

\* promise_type::awaitable::await_suspend: the handle control transfers to
Task_final_await_suspend(p) == p.continuation

\* mutant: a task that claims to be ready
Task_await_ready_true == TRUE

\* Task::await_ready: co_await always suspends the awaiting coroutine
Task_await_ready == FALSE

\* mutant: the awaiting coroutine is not recorded
Task_await_suspend_unrecorded(p, c) == p

\* Task::await_suspend(c): the promise after the call (the call returns the
\* task's own handle, to which control transfers)
Task_await_suspend(p, c) == [p EXCEPT !.continuation = c]

\* A moved-from T is valid but unspecified: unchanged for a trivially
\* copyable T, the empty value for a T with a real move constructor.
MovedFromValue(v) == {v, 0}

\* Task<T>::await_resume: the possible (outcome, promise afterwards) pairs.
\* std::get<1>(std::move(result)) moves the value out; std::get<2> on an
\* unset variant throws; rethrow_exception takes its argument by value, so
\* the stored exception_ptr is moved from (null where exception_ptr has a
\* move constructor, unchanged where it only copies), and rethrowing a null
\* exception_ptr is undefined.
Task_await_resume(p) ==
    LET r == p.result
        after == [p EXCEPT !.result.moved = TRUE]
    IN  IF r.index = 1
        THEN IF r.moved
             THEN {[out |-> Val(w), p |-> after] : w \in MovedFromValue(r.val)}
             ELSE {[out |-> Val(r.val), p |-> after]}
        ELSE IF r.index = 2
        THEN IF r.moved
             THEN {[out |-> Exc(r.err), p |-> after],
                   [out |-> Undefined, p |-> after]}
             ELSE {[out |-> Exc(r.err), p |-> after]}
        ELSE {[out |-> Exc(BadVariantAccess), p |-> p]}

TaskVoid_await_resume(p) ==
    IF p.e # NoException
    THEN {[out |-> Exc(p.e), p |-> p]}
    ELSE {[out |-> Void, p |-> p]}

await_resume(t) ==
    IF prog[t].kind = "value"
    THEN Task_await_resume(promise[t])
    ELSE TaskVoid_await_resume(promise[t])

\* ------------------------------------------ SyncWaitTask::promise_type
FreshSyncWaitPromise == [value |-> "nullptr", error |-> NoException, sema4 |-> 0]

\* mutant: yield_value signals the gate itself, ahead of its awaitable
SyncWait_yield_value_releasing(p) ==
    [p EXCEPT !.value = "tmp", !.sema4 = @ + 1]

\* yield_value(T&& x): value = std::addressof(x), x being the operand
\* temporary of the co_yield
SyncWait_yield_value(p) == [p EXCEPT !.value = "tmp"]

\* mutant: an unhandled_exception that keeps nothing
SyncWait_unhandled_exception_dropped(p, ex) == p

SyncWait_unhandled_exception(p, ex) == [p EXCEPT !.error = ex]

\* mutant: an awaitable that does not suspend the helper
SyncWait_await_ready_true == TRUE

\* SyncWaitTask::promise_type::awaitable::await_ready
SyncWait_await_ready == FALSE

\* mutant: an awaitable that suspends without signalling the gate
SyncWait_await_suspend_silent(p) == p

\* awaitable::await_suspend: sema4.release()
SyncWait_await_suspend(p) == [p EXCEPT !.sema4 = @ + 1]

\* mutant: an acquire that does not wait
sema4_acquire_ready_nowait(p) == TRUE

\* sema4.acquire() returns only when the count is positive
sema4_acquire_ready(p) == p.sema4 > 0

sema4_acquire(p) == [p EXCEPT !.sema4 = @ - 1]

\* SyncWaitTask::get() after the acquire: rethrow the error or dereference
\* the value pointer (a null pointer dereference is undefined)
SyncWait_get_result(p, tmp, isVoid) ==
    IF p.error # NoException THEN Exc(p.error)
    ELSE IF p.value = "nullptr" THEN Undefined
    ELSE IF isVoid THEN Void
    ELSE Val(tmp)

\* ------------------------------------------- Generator, GeneratorFactory
\* std::out_of_range{ "Generator exhausted" }
OutOfRange == MaxTasks + 2
\* a `T current_value` that no yield has assigned yet (T an arithmetic type)
Indeterminate == -1
\* an empty std::shared_ptr
NullPtr == 0
\* T{}: the value of the objects a Pool is filled with
DefaultT == 0
\* a value written through a handle by the consumer
Written7 == 7
\* the addresses std::make_shared can return
Addrs == 1..MaxResumptions

\* the sequences over S of length at most n
RECURSIVE SeqsUpTo(_, _)
SeqsUpTo(S, n) ==
    IF n = 0 THEN {<<>>}
    ELSE SeqsUpTo(S, n - 1)
         \cup {Append(q, x) : q \in {r \in SeqsUpTo(S, n - 1) : Len(r) = n - 1},
                              x \in S}

\* A Generator<int> body: co_yield of each value of ys in turn, and then
\* the end of the body or a throw.
FiniteBody(ys, end) ==
    [kind |-> "finite",
     body |-> [i \in 1..Len(ys) |-> [op |-> "yield", v |-> ys[i]]]
              \o <<[op |-> end, v |-> 0]>>,
     N |-> 0]

\* GeneratorFactory<T, n>::generate() as the body of a
\* Generator<std::shared_ptr<T>>
FactoryBody(n) == [kind |-> "factory", body |-> <<>>, N |-> n]

\* the bodies of the Generator<int> scenarios
GenScenarios ==
    {FiniteBody(ys, end) : ys \in SeqsUpTo(Values, MaxYields),
                           end \in {"ret", "throw"}}

\* the bodies of the GeneratorFactory scenarios
FacScenarios == {FactoryBody(n) : n \in 1..MaxPoolSize}

\* Pool(number_of_objects_in_each_pool, T{})
FreshPool(n) == [i \in 1..n |-> DefaultT]

FreshHeap == [a \in Addrs |-> [live |-> FALSE, used |-> FALSE, val |-> DefaultT,
                               pool |-> 0, slot |-> 0]]

\* the Promise of a coroutine that was not called yet
NoGenerator == [st |-> "none", pc |-> 1, current_value |-> Indeterminate]

\* the generator side at rest
GenIdle ==
    /\ gprog = FiniteBody(<<>>, "ret")
    /\ g = NoGenerator
    /\ proc = "alive"
    /\ fac = [pools |-> <<>>, counter |-> 0]
    /\ heap = FreshHeap
    /\ held = {}
    /\ forpc = "none"
    /\ glast = [op |-> "none", out |-> None]
    /\ gpulled = <<>>
    /\ gyielded = <<>>
    /\ gvisited = <<>>
    /\ gres = [n |-> 0, n0 |-> 0, from |-> 0]

\* no resumption of generate() is under way
NoLoop == [running |-> FALSE, allocs |-> 0]

\* the objects and the coroutine frames of an ownership scenario
Objs == 1..MaxObjects
Frames == 1..MaxFrames

\* a null std::coroutine_handle
NullFrame == 0

\* the class templates that own a coroutine handle
TaskKinds == {"Task", "TaskVoid", "SyncWaitTask"}
OwnerKinds == TaskKinds \cup {"Generator"}

\* no object made, no coroutine called
Owners0(kind) ==
    [kind |-> kind,
     obj |-> [o \in Objs |-> [st |-> "unborn", handle |-> NullFrame]],
     frame |-> [f \in Frames |-> [made |-> FALSE, destroyed |-> 0]],
     proc |-> "alive"]

NoOwners == Owners0("none")

\* main() with arguments args: not entered, or at its first statement
Main0(args) ==
    [pc |-> IF args.argc < 0 THEN "idle" ELSE "args",
     argc |-> args.argc, path |-> args.path, home |-> args.home,
     exists |-> args.exists, failAt |-> args.failAt,
     dirs |-> 0, files |-> 0, steps |-> 0, ret |-> "none"]

NoMain ==
    Main0([argc |-> -1, path |-> "none", home |-> FALSE, exists |-> "no",
           failAt |-> 0])

\* decimal_to_hexadecimal not called
NoConversion == [pc |-> "idle", n |-> 0, out |-> <<>>]

\* the further specifications at rest
ExtIdle ==
    /\ other = NoGenerator
    /\ loop = NoLoop
    /\ own = NoOwners
    /\ cli = NoMain
    /\ hex = NoConversion

\* ----------------------------------------------------------------- Init
Init ==
    /\ GenIdle
    /\ ExtIdle
    /\ \E sh \in Shapes(MaxTasks) :
       \E thrower \in {NoTask} \cup UsedTasks(sh) :
       \E catcher \in {NoTask} \cup PathUp(sh, thrower) :
       \E hopper \in {NoTask} \cup UsedTasks(sh) :
       \E voidTask \in {NoTask} \cup UsedTasks(sh) :
       \E lv \in LeafValues(sh, thrower, voidTask) :
            prog = Scenario(sh, thrower, catcher, hopper, voidTask, lv)
    /\ st = [t \in Tasks |-> "none"]
    /\ pc = [t \in Tasks |-> 1]
    /\ acc = [t \in Tasks |-> 0]
    /\ named = [t \in Tasks |-> FALSE]
    /\ promise = [t \in Tasks |-> FreshPromise]
    /\ hst = "none"
    /\ hp = FreshSyncWaitPromise
    /\ htmp = 0
    /\ stack = [th \in Threads |-> <<>>]
    /\ ready = {}
    /\ mainpc = "start"
    /\ outcome = None
    /\ returned = [t \in Tasks |-> None]
    /\ obs = [t \in Tasks |-> <<>>]
    /\ resumes = [t \in Tasks |-> 0]
    /\ log = <<>>

\* --------------------------------------------------------- control flow
Running(th, x) == stack[th] # <<>> /\ Head(stack[th]) = x

\* symmetric transfer: the running coroutine is replaced by x
Transfer(th, x) == [stack EXCEPT ![th] = <<x>> \o Tail(@)]

\* the running coroutine suspends and control returns to its resumer
Return(th) == [stack EXCEPT ![th] = Tail(@)]

Event(ev, a, b) == [ev |-> ev, a |-> a, b |-> b]

\* the frame states after the named children of t left scope
LocalsDestroyed(s, t) ==
    [c \in Tasks |->
        IF c \in Kids(t) /\ named[c] /\ s[c] \notin {"none", "destroyed"}
        THEN "destroyed" ELSE s[c]]

\* get_return_object and initial_suspend of task c, called on thread th
ConstructTask(th, c, isNamed) ==
    /\ st' = [st EXCEPT ![c] = IF initial_suspend = "suspend_always"
                               THEN "initial" ELSE "running"]
    /\ stack' = IF initial_suspend = "suspend_always"
                THEN stack
                ELSE [stack EXCEPT ![th] = <<c>> \o @]
    /\ named' = [named EXCEPT ![c] = isNamed]

\* unhandled_exception of task t's promise
unhandled_exception(t, ex) ==
    IF prog[t].kind = "value"
    THEN Task_unhandled_exception(promise[t], ex)
    ELSE TaskVoid_unhandled_exception(promise[t], ex)

\* ------------------------------------------------- the caller (main)
\* the caller makes the root task
MainConstructRoot ==
    /\ mainpc = "start"
    /\ ConstructTask("main", Root, TRUE)
    /\ mainpc' = "call"
    /\ UNCHANGED <<genVars, extVars>>
    /\ UNCHANGED <<prog, pc, acc, promise, hst, hp, htmp, ready, outcome,
                   returned, obs, resumes, log>>

\* sync_wait(task): coro() makes the helper, get() resumes it
MainSyncWait ==
    /\ mainpc = "call"
    /\ stack["main"] = <<>>
    /\ hst' = "start"
    /\ stack' = [stack EXCEPT !["main"] = <<Helper>>]
    /\ mainpc' = "resume"
    /\ UNCHANGED <<genVars, extVars>>
    /\ UNCHANGED <<prog, st, pc, acc, named, promise, hp, htmp, ready,
                   outcome, returned, obs, resumes, log>>

\* get(): handle.resume() has returned; p.sema4.acquire()
MainAcquire ==
    /\ mainpc = "resume"
    /\ stack["main"] = <<>>
    /\ sema4_acquire_ready(hp)
    /\ hp' = sema4_acquire(hp)
    /\ mainpc' = "check"
    /\ UNCHANGED <<genVars, extVars>>
    /\ UNCHANGED <<prog, st, pc, acc, named, promise, hst, htmp, stack,
                   ready, outcome, returned, obs, resumes, log>>

\* get(): rethrow p.error or return *p.value; then ~SyncWaitTask
MainReturn ==
    /\ mainpc = "check"
    /\ outcome' = SyncWait_get_result(hp, htmp, prog[Root].kind = "void")
    /\ mainpc' = "done"
    /\ hst' = "destroyed"
    /\ UNCHANGED <<genVars, extVars>>
    /\ UNCHANGED <<prog, st, pc, acc, named, promise, hp, htmp, stack,
                   ready, returned, obs, resumes, log>>

\* ------------------------------------------------- the helper coroutine
\* co_await std::forward<T>(Task): the helper suspends (await_ready is
\* false) and Task::await_suspend(helper) transfers control to the task
HelperAwait(th) ==
    /\ Running(th, Helper)
    /\ hst = "start"
    /\ st[Root] = "initial"
    /\ promise' = IF Task_await_ready THEN promise
                  ELSE [promise EXCEPT ![Root] = Task_await_suspend(@, Helper)]
    /\ hst' = "awaiting"
    /\ st' = IF Task_await_ready THEN st ELSE [st EXCEPT ![Root] = "running"]
    /\ stack' = IF Task_await_ready THEN stack ELSE Transfer(th, Root)
    /\ log' = Append(log, Event("await", Helper, Root))
    /\ UNCHANGED <<genVars, extVars>>
    /\ UNCHANGED <<prog, pc, acc, named, hp, htmp, ready, mainpc, outcome,
                   returned, obs, resumes>>

\* the helper is resumed: Task::await_resume, then co_yield (yield_value)
\* or, if it threw, unhandled_exception
HelperAwaitResume(th) ==
    /\ Running(th, Helper)
    /\ hst = "awaiting"
    /\ \E r \in await_resume(Root) :
        /\ promise' = [promise EXCEPT ![Root] = r.p]
        /\ obs' = [obs EXCEPT ![Root] = Append(@, r.out)]
        /\ IF r.out.kind \in {"val", "void"}
           THEN /\ htmp' = r.out.v
                /\ hp' = SyncWait_yield_value(hp)
                /\ hst' = "yield"
           ELSE /\ htmp' = htmp
                /\ hp' = SyncWait_unhandled_exception(hp, r.out.v)
                /\ hst' = "at_final"
    /\ log' = Append(log, Event("resumed", Helper, Root))
    /\ UNCHANGED <<genVars, extVars>>
    /\ UNCHANGED <<prog, st, pc, acc, named, stack, ready, mainpc, outcome,
                   returned, resumes>>

\* awaitable at the co_yield or at final_suspend: await_ready is false, so
\* the helper suspends and await_suspend runs; were it true, the helper
\* would go on to the statement after the co_yield, assert(false)
HelperSuspend(th) ==
    /\ Running(th, Helper)
    /\ hst \in {"yield", "at_final"}
    /\ IF SyncWait_await_ready
       THEN /\ hst' = IF hst = "yield" THEN "assert_false" ELSE "final"
            /\ UNCHANGED <<hp, stack>>
       ELSE /\ hp' = SyncWait_await_suspend(hp)
            /\ hst' = IF hst = "yield" THEN "yielded" ELSE "final"
            /\ stack' = Return(th)
    /\ UNCHANGED <<genVars, extVars>>
    /\ UNCHANGED <<prog, st, pc, acc, named, promise, htmp, ready, mainpc,
                   outcome, returned, obs, resumes, log>>

\* ------------------------------------------------------ the task bodies
\* `auto c = child();` at the top of the body, ahead of the co_await: the
\* body of t makes a child task and keeps it in a local variable.  The
\* locals are declared in the reverse of the order they are awaited in; at
\* most one body of a scenario keeps locals, and none does in a scenario
\* with a body that reschedules itself.
PreConstruct(th, t, c) ==
    /\ Running(th, t)
    /\ st[t] = "running"
    /\ pc[t] = 1
    /\ c \in Kids(t)
    /\ st[c] = "none"
    /\ \A d \in Kids(t) : d > c => st[d] # "none"
    /\ \A d \in Tasks \ {Root} : named[d] => d \in Kids(t)
    /\ \A u \in Tasks : ~Hops(u)
    /\ ConstructTask(th, c, TRUE)
    /\ UNCHANGED <<genVars, extVars>>
    /\ UNCHANGED <<prog, pc, acc, promise, hst, hp, htmp, ready, mainpc,
                   outcome, returned, obs, resumes, log>>

\* `co_await child()`: the operand temporary is made
AwaitConstruct(th, t) ==
    /\ Running(th, t)
    /\ st[t] = "running"
    /\ Instr(t).op = "await"
    /\ st[Instr(t).c] = "none"
    /\ ConstructTask(th, Instr(t).c, FALSE)
    /\ UNCHANGED <<genVars, extVars>>
    /\ UNCHANGED <<prog, pc, acc, promise, hst, hp, htmp, ready, mainpc,
                   outcome, returned, obs, resumes, log>>

\* co_await on child c: await_ready is false, so t suspends;
\* Task::await_suspend(t) records t as c's continuation and returns c's
\* handle, to which control transfers.  (Were await_ready true, t would go
\* on to await_resume without suspending.)
CoAwait(th, t) ==
    /\ Running(th, t)
    /\ st[t] = "running"
    /\ Instr(t).op = "await"
    /\ LET c == Instr(t).c IN
        /\ st[c] = "initial"
        /\ promise' = IF Task_await_ready THEN promise
                      ELSE [promise EXCEPT ![c] = Task_await_suspend(@, t)]
        /\ st' = IF Task_await_ready THEN [st EXCEPT ![t] = "awaiting"]
                 ELSE [st EXCEPT ![t] = "awaiting", ![c] = "running"]
        /\ stack' = IF Task_await_ready THEN stack ELSE Transfer(th, c)
        /\ log' = Append(log, Event("await", t, c))
    /\ UNCHANGED <<genVars, extVars>>
    /\ UNCHANGED <<prog, pc, acc, named, hst, hp, htmp, ready, mainpc,
                   outcome, returned, obs, resumes>>

\* t is resumed at its co_await: await_resume on the child gives the value
\* or rethrows; an exception not caught escapes the body of t
\* (unhandled_exception).  A temporary operand is destroyed afterwards.
AwaitResume(th, t) ==
    /\ Running(th, t)
    /\ st[t] = "awaiting"
    /\ LET c == Instr(t).c IN
       \E r \in await_resume(c) :
        LET escapes == r.out.kind \in {"exc", "ub"} /\ ~prog[c].catch
            s1 == [st EXCEPT ![t] = IF escapes THEN "at_final" ELSE "running",
                             ![c] = IF named[c] THEN @ ELSE "destroyed"]
        IN
        /\ obs' = [obs EXCEPT ![c] = Append(@, r.out)]
        /\ acc' = [acc EXCEPT ![t] = IF r.out.kind = "val" THEN @ + r.out.v ELSE @]
        /\ pc' = [pc EXCEPT ![t] = IF escapes THEN @ ELSE @ + 1]
        /\ st' = IF escapes THEN LocalsDestroyed(s1, t) ELSE s1
        /\ promise' = IF escapes
                      THEN [promise EXCEPT ![c] = r.p,
                                           ![t] = unhandled_exception(t, r.out.v)]
                      ELSE [promise EXCEPT ![c] = r.p]
        /\ returned' = IF escapes THEN [returned EXCEPT ![t] = r.out] ELSE returned
        /\ log' = IF escapes
                  THEN log \o <<Event("resumed", t, c), Event("finish", t, t)>>
                  ELSE Append(log, Event("resumed", t, c))
    /\ UNCHANGED <<genVars, extVars>>
    /\ UNCHANGED <<prog, named, hst, hp, htmp, stack, ready, mainpc, outcome,
                   resumes>>

\* a second c.await_resume() on a completed child still in scope, made
\* right after the co_await and inside a try block, so that its outcome is
\* only looked at
Reobserve(th, t, c) ==
    /\ Running(th, t)
    /\ st[t] = "running"
    /\ c \in Kids(t)
    /\ pc[t] > 1
    /\ Body(t)[pc[t] - 1] = [op |-> "await", c |-> c]
    /\ st[c] = "final"
    /\ Len(obs[c]) = 1
    /\ Cardinality({d \in Tasks : Len(obs[d]) >= 2}) < MaxReobserved
    /\ \E r \in await_resume(c) :
        /\ promise' = [promise EXCEPT ![c] = r.p]
        /\ obs' = [obs EXCEPT ![c] = Append(@, r.out)]
    /\ UNCHANGED <<genVars, extVars>>
    /\ UNCHANGED <<prog, st, pc, acc, named, hst, hp, htmp, stack, ready,
                   mainpc, outcome, returned, resumes, log>>

\* co_await of an awaitable that hands the coroutine to the worker thread:
\* the coroutine suspends and control returns to its resumer
Hop(th, t) ==
    /\ Running(th, t)
    /\ st[t] = "running"
    /\ Instr(t).op = "hop"
    /\ st' = [st EXCEPT ![t] = "hopped"]
    /\ pc' = [pc EXCEPT ![t] = @ + 1]
    /\ ready' = ready \cup {t}
    /\ stack' = Return(th)
    /\ UNCHANGED <<genVars, extVars>>
    /\ UNCHANGED <<prog, acc, named, promise, hst, hp, htmp, mainpc, outcome,
                   returned, obs, resumes, log>>

\* the worker thread resumes a coroutine handed to it
WorkerResume(t) ==
    /\ t \in ready
    /\ stack["worker"] = <<>>
    /\ stack' = [stack EXCEPT !["worker"] = <<t>>]
    /\ st' = [st EXCEPT ![t] = "running"]
    /\ ready' = ready \ {t}
    /\ UNCHANGED <<genVars, extVars>>
    /\ UNCHANGED <<prog, pc, acc, named, promise, hst, hp, htmp, mainpc,
                   outcome, returned, obs, resumes, log>>

\* co_return: return_value(acc + k) or return_void; locals leave scope
CoReturn(th, t) ==
    /\ Running(th, t)
    /\ st[t] = "running"
    /\ Instr(t).op = "ret"
    /\ LET v == acc[t] + Instr(t).c IN
        /\ promise' = [promise EXCEPT ![t] =
                          IF prog[t].kind = "value"
                          THEN Task_return_value(@, v)
                          ELSE TaskVoid_return_void(@)]
        /\ returned' = [returned EXCEPT ![t] =
                          IF prog[t].kind = "value" THEN Val(v) ELSE Void]
    /\ st' = LocalsDestroyed([st EXCEPT ![t] = "at_final"], t)
    /\ log' = Append(log, Event("finish", t, t))
    /\ UNCHANGED <<genVars, extVars>>
    /\ UNCHANGED <<prog, pc, acc, named, hst, hp, htmp, stack, ready, mainpc,
                   outcome, obs, resumes>>

\* a throw in the body of t: locals leave scope, unhandled_exception
Throw(th, t) ==
    /\ Running(th, t)
    /\ st[t] = "running"
    /\ Instr(t).op = "throw"
    /\ promise' = [promise EXCEPT ![t] = unhandled_exception(t, t)]
    /\ returned' = [returned EXCEPT ![t] = Exc(t)]
    /\ st' = LocalsDestroyed([st EXCEPT ![t] = "at_final"], t)
    /\ log' = Append(log, Event("finish", t, t))
    /\ UNCHANGED <<genVars, extVars>>
    /\ UNCHANGED <<prog, pc, acc, named, hst, hp, htmp, stack, ready, mainpc,
                   outcome, obs, resumes>>

\* final_suspend: awaitable::await_suspend returns the continuation, to
\* which control transfers.  A transfer to a null handle is undefined: the
\* thread is lost in it, or goes on as if resume() had returned.
FinalSuspend(th, t) ==
    /\ Running(th, t)
    /\ st[t] = "at_final"
    /\ LET k == Task_final_await_suspend(promise[t]) IN
        /\ stack' \in (IF k = NullHandle
                       THEN {Transfer(th, k), Return(th)}
                       ELSE {Transfer(th, k)})
        /\ resumes' = [resumes EXCEPT ![t] = IF k = NullHandle THEN @ ELSE @ + 1]
    /\ st' = [st EXCEPT ![t] = "final"]
    /\ UNCHANGED <<genVars, extVars>>
    /\ UNCHANGED <<prog, pc, acc, named, promise, hst, hp, htmp, ready,
                   mainpc, outcome, returned, obs, log>>

\* ----------------------------------------------------------------- Next
Next ==
    \/ MainConstructRoot
    \/ MainSyncWait
    \/ MainAcquire
    \/ MainReturn
    \/ \E t \in Tasks : WorkerResume(t)
    \/ \E th \in Threads :
        \/ HelperAwait(th)
        \/ HelperAwaitResume(th)
        \/ HelperSuspend(th)
        \/ \E t \in Tasks :
            \/ AwaitConstruct(th, t)
            \/ CoAwait(th, t)
            \/ AwaitResume(th, t)
            \/ Hop(th, t)
            \/ CoReturn(th, t)
            \/ Throw(th, t)
            \/ FinalSuspend(th, t)
            \/ \E c \in Tasks :
                \/ PreConstruct(th, t, c)
                \/ Reobserve(th, t, c)

Spec == Init /\ [][Next]_vars

\* --------------------------------------- a task driven by its handle
\* the caller does not pass the root task to sync_wait but resumes it:
\* task.handle.resume()
MainExplicitResume ==
    /\ mainpc = "call"
    /\ stack["main"] = <<>>
    /\ st[Root] = "initial"
    /\ st' = [st EXCEPT ![Root] = "running"]
    /\ stack' = [stack EXCEPT !["main"] = <<Root>>]
    /\ mainpc' = "explicit"
    /\ UNCHANGED <<genVars, extVars>>
    /\ UNCHANGED <<prog, pc, acc, named, promise, hst, hp, htmp, ready,
                   outcome, returned, obs, resumes, log>>

ResumeNext ==
    \/ Next
    \/ MainExplicitResume

ResumeSpec == Init /\ [][ResumeNext]_vars

\* ======================================================== properties
OnSomeStack(x) ==
    \E th \in Threads : \E i \in 1..Len(stack[th]) : stack[th][i] = x

RECURSIVE IsAncestor(_, _)
\* a awaits t, directly or through a chain of awaits
IsAncestor(a, t) ==
    /\ t # Root
    /\ prog[t].used
    /\ \/ prog[t].parent = a
       \/ IsAncestor(a, prog[t].parent)

\* no await between t and the root is inside a try block
UncaughtPath(t) ==
    /\ prog[t].used
    /\ ~prog[t].catch
    /\ \A a \in Tasks : IsAncestor(a, t) => ~prog[a].catch

\* position of an event in the log, 0 when it did not happen
Pos(ev) ==
    IF \E i \in 1..Len(log) : log[i] = ev
    THEN CHOOSE i \in 1..Len(log) : log[i] = ev
    ELSE 0

\* C1: when the body of the task given to sync_wait returned v, sync_wait
\* returns exactly v to its caller
C1_RoundTrip ==
    mainpc = "done" /\ returned[Root].kind = "val" => outcome = returned[Root]

C1_Witness ==
    /\ mainpc = "done"
    /\ Kids(Root) = {}
    /\ returned[Root] = Val(32)
    /\ outcome = Val(32)

\* C2: an exception that escapes the root body, or that a deeper task throws
\* and no task on the await chain catches, is what sync_wait rethrows
C2_Rethrows ==
    mainpc = "done" =>
        \A t \in Tasks :
            returned[t].kind = "exc" /\ UncaughtPath(t) => outcome = returned[t]

C2_Witness ==
    /\ mainpc = "done"
    /\ MaxTasks \in Tasks
    /\ IsAncestor(Root, MaxTasks) /\ prog[MaxTasks].parent # Root
    /\ returned[MaxTasks] = Exc(MaxTasks)
    /\ outcome = Exc(MaxTasks)

\* the coroutine that awaits task c
AwaiterOf(c) == IF c = Root THEN Helper ELSE prog[c].parent

\* coroutine x is suspended at a co_await
SuspendedAtAwait(x) ==
    /\ ~OnSomeStack(x)
    /\ IF x = Helper THEN hst = "awaiting" ELSE st[x] = "awaiting"

\* task c was started and has not reached its final suspension
Unfinished(c) == st[c] \in {"running", "hopped", "awaiting", "at_final"}

\* C3: an awaited task has its awaiter recorded as continuation, the awaiter
\* stays suspended while the task body runs, and the continuation is resumed
\* exactly once, at the final suspension, after a return as after a throw
C3_ContinuationOnce ==
    \A c \in Tasks :
        /\ resumes[c] <= 1
        /\ Unfinished(c) =>
            /\ promise[c].continuation = AwaiterOf(c)
            /\ SuspendedAtAwait(AwaiterOf(c))
            /\ resumes[c] = 0
        /\ st[c] \in {"running", "at_final"} => \E th \in Threads : Running(th, c)
        /\ resumes[c] = 1 <=>
            (st[c] \in {"final", "destroyed"} /\ returned[c] # None)

C3_Witness ==
    \E c \in Tasks \ {Root} :
        /\ resumes[c] = 1
        /\ returned[c].kind = "exc"
        /\ st[prog[c].parent] = "running"
        /\ \E d \in Tasks : resumes[d] = 1 /\ returned[d].kind = "val"

\* C4: in a chain a -> b -> c resumption is the reverse of the await order:
\* c finishes, then b is resumed at its co_await, b finishes, then a is
\* resumed; no coroutine runs while a task it awaits, directly or through
\* the chain, is unfinished
C4_LIFO ==
    /\ \A t \in Tasks :
        Unfinished(t) =>
            /\ SuspendedAtAwait(Helper)
            /\ \A a \in Tasks : IsAncestor(a, t) => SuspendedAtAwait(a)
    /\ \A b \in Tasks :
        LET a == AwaiterOf(b)
            awaitAB == Pos(Event("await", a, b))
            finishB == Pos(Event("finish", b, b))
            resumedA == Pos(Event("resumed", a, b))
        IN  resumedA > 0 =>
                0 < awaitAB /\ awaitAB < finishB /\ finishB < resumedA
    /\ \A b \in Tasks : \A c \in Kids(b) :
        LET a == AwaiterOf(b)
            awaitAB == Pos(Event("await", a, b))
            awaitBC == Pos(Event("await", b, c))
            finishC == Pos(Event("finish", c, c))
            resumedB == Pos(Event("resumed", b, c))
            finishB == Pos(Event("finish", b, b))
            resumedA == Pos(Event("resumed", a, b))
        IN  /\ resumedB > 0 =>
                0 < awaitAB /\ awaitAB < awaitBC /\ awaitBC < finishC
                /\ finishC < resumedB
            /\ resumedA > 0 /\ awaitBC > 0 =>
                0 < resumedB /\ resumedB < finishB /\ finishB < resumedA

C4_Witness ==
    /\ MaxTasks >= 3
    /\ prog[2].used /\ prog[2].parent = 1
    /\ prog[3].used /\ prog[3].parent = 2
    /\ Pos(Event("resumed", 2, 3)) > 0
    /\ Pos(Event("resumed", 1, 2)) > 0
    /\ Pos(Event("resumed", Helper, 1)) > 0

\* the result slot of task c holds what the body of c ended with
SlotHolds(c) ==
    IF prog[c].kind = "value"
    THEN \/ /\ returned[c].kind = "val"
            /\ promise[c].result.index = 1
            /\ promise[c].result.val = returned[c].v
         \/ /\ returned[c].kind = "exc"
            /\ promise[c].result.index = 2
            /\ promise[c].result.err = returned[c].v
    ELSE \/ returned[c] = Void /\ promise[c].e = NoException
         \/ returned[c].kind = "exc" /\ promise[c].e = returned[c].v

\* C5: when the awaiter's await_resume runs, the result slot is set to what
\* the body ended with, and await_resume gives exactly that: the value, or
\* the exception rethrown
C5_SlotSet ==
    /\ \A c \in Tasks :
        Len(obs[c]) >= 1 => returned[c] # None /\ obs[c][1] = returned[c]
    /\ \A th \in Threads :
        /\ Running(th, Helper) /\ hst = "awaiting" => SlotHolds(Root)
        /\ \A t \in Tasks :
            Running(th, t) /\ st[t] = "awaiting" => SlotHolds(Instr(t).c)

C5_Witness ==
    \E c, d, e \in Tasks :
        /\ Len(obs[c]) >= 1 /\ obs[c][1].kind = "val"
        /\ Len(obs[d]) >= 1 /\ obs[d][1].kind = "exc"
        /\ Len(obs[e]) >= 1 /\ obs[e][1] = Void

\* C6: two observations of a completed task give the same outcome
C6_SameTwice ==
    \A c \in Tasks : Len(obs[c]) = 2 => obs[c][1] = obs[c][2]

\* the helper has delivered its outcome (suspended at co_yield or at
\* final_suspend, or already destroyed by the caller)
Delivered == hst \in {"yielded", "final", "destroyed"}

\* the caller is past p.sema4.acquire()
Acquired == mainpc \in {"check", "done"}

\* C7: the gate is released exactly once per sync_wait, at the co_yield on
\* success or at final_suspend after an exception; its count is 0 or 1
C7_ReleasedOnce ==
    /\ hp.sema4 \in {0, 1}
    /\ hp.sema4 + (IF Acquired THEN 1 ELSE 0) = (IF Delivered THEN 1 ELSE 0)
    /\ hst = "yielded" => hp.error = NoException /\ hp.value = "tmp"
    /\ hst = "final" => hp.error # NoException /\ hp.value = "nullptr"
    /\ mainpc = "done" => hp.sema4 = 0

C7_Witness ==
    /\ hst = "final"
    /\ hp.sema4 = 1
    /\ mainpc = "resume"

\* the helper's result slot has been written
Written == hp.error # NoException \/ hp.value = "tmp"

\* C8: the caller reads the slot only after acquiring the gate, and the
\* gate is released only after the slot was written, on whichever thread
\* the chain completes
C8_ReadAfterWrite ==
    /\ hp.sema4 > 0 => Written
    /\ Acquired => Written /\ Delivered /\ ~OnSomeStack(Helper)
    /\ mainpc = "done" =>
        /\ outcome.kind # "ub"
        /\ outcome = IF hp.error # NoException THEN Exc(hp.error)
                     ELSE IF prog[Root].kind = "void" THEN Void
                     ELSE Val(htmp)

C8_Witness ==
    /\ mainpc = "check"
    /\ stack["worker"] = <<>>
    /\ \E t \in Tasks : Hops(t) /\ returned[t] # None

\* the root awaits two tasks one after the other and returns their sum
C9_Scenario ==
    /\ MaxTasks >= 3
    /\ Kids(Root) = {2, 3}
    /\ Kids(2) = {} /\ Kids(3) = {}
    /\ \A t \in {Root, 2, 3} :
        prog[t].kind = "value" /\ Term(t).op = "ret"

\* C9: sync_wait on a root that awaits a task returning a and then a task
\* returning b never blocks for good and returns a + b (10 and 32: 42)
C9_SumNoDeadlock ==
    C9_Scenario =>
        /\ mainpc # "done" => ENABLED Next
        /\ mainpc = "done" => outcome = Val(Term(2).c + Term(3).c)
        /\ mainpc = "done" /\ Term(2).c = 10 /\ Term(3).c = 32 =>
            outcome = Val(42)

C9_Witness ==
    /\ C9_Scenario
    /\ Term(2).c = 10 /\ Term(3).c = 32
    /\ mainpc = "done"
    /\ outcome = Val(42)

\* C10: a task that was made and not yet awaited has executed nothing: its
\* body is at its first instruction, its promise is as constructed, it made
\* no child and it is on no thread
C10_NothingBeforeDriven ==
    \A t \in Tasks :
        st[t] # "none" /\ promise[t].continuation = NullHandle =>
            /\ st[t] \in {"initial", "destroyed"}
            /\ pc[t] = 1
            /\ acc[t] = 0
            /\ returned[t] = None
            /\ promise[t] = FreshPromise
            /\ ~OnSomeStack(t)
            /\ \A c \in Kids(t) : st[c] = "none"
            /\ \A i \in 1..Len(log) : log[i].a # t

C10_Witness ==
    \E t, u \in Tasks :
        /\ t # u
        /\ st[t] = "initial" /\ st[u] = "initial"
        /\ AwaiterOf(t) = AwaiterOf(u)

\* ================================================== Generator<T>::Promise
\* mutant: a generator that starts running when it is made
Generator_initial_suspend_never == "suspend_never"

\* Promise::initial_suspend
Generator_initial_suspend == "suspend_always"

\* Promise::final_suspend: the frame stays, handle.done() becomes true
Generator_final_suspend == "suspend_always"

\* mutant: a yield_value that keeps the old current_value
Generator_yield_value_dropped(p, value) == p

\* Promise::yield_value: current_value = value
Generator_yield_value(p, value) == [p EXCEPT !.current_value = value]

\* mutant: the exception is passed on to the resumer
Generator_unhandled_exception_rethrow == "rethrow"

\* Promise::unhandled_exception: std::terminate()
Generator_unhandled_exception == "terminate"

\* the exception object a throwing body throws
BodyException == MaxTasks + 3

\* ------------------------------------------------ GeneratorFactory
\* mutant: the new pool takes the place of the old ones
generate_rollover_replacing(f, n) ==
    [pools |-> <<FreshPool(n)>>, counter |-> 0]

\* mutant: the new pool has twice the size
generate_rollover_doubling(f, n) ==
    [pools |-> <<FreshPool(2 * n)>> \o f.pools, counter |-> 0]

\* generate(), else branch: m_pools.emplace_front(Pool(N, T{}));
\* m_object_counter = 0
generate_rollover(f, n) ==
    [pools |-> <<FreshPool(n)>> \o f.pools, counter |-> 0]

\* mutant: the else branch ends the resumption
generate_after_rollover_suspends == "suspend"

\* generate(): after the else branch the while (true) loop goes round
\* again, within the same resumption
generate_after_rollover == "loop"

\* the addresses a std::make_shared may return: one whose object was
\* released, or one never used before (the least stands for all of them)
FreeAddrs(h) ==
    {a \in Addrs : h[a].used /\ ~h[a].live}
    \cup (IF \E a \in Addrs : ~h[a].used
          THEN {CHOOSE a \in Addrs : ~h[a].used /\ \A b \in Addrs : ~h[b].used => a <= b}
          ELSE {})

\* std::make_shared<T>(obj) at address a: a new object, copy-constructed
\* from obj, which is slot `slot` of the pool allocated `pool`-th
make_shared(h, a, obj, pool, slot) ==
    [h EXCEPT ![a] = [live |-> TRUE, used |-> TRUE, val |-> obj,
                      pool |-> pool, slot |-> slot]]

\* ~shared_ptr of the last owner: the objects no shared_ptr in refs owns
\* are deleted
Reclaim(h, refs) ==
    [a \in Addrs |-> IF h[a].live /\ a \notin refs
                     THEN [FreshHeap[a] EXCEPT !.used = TRUE] ELSE h[a]]

\* a value yielded: the value, and for a handle the slot it was made from
\* and the object it referred to when it was yielded
Yielded(v, pool, slot, obj) == [v |-> v, pool |-> pool, slot |-> slot, obj |-> obj]

\* ------------------------------------------------- the generator bodies
\* One resumption of a finite body, from the suspension point g.pc: a
\* co_yield, the end of the body, or a throw.  esc: an exception leaves
\* handle.resume().
RunFiniteBody(esc) ==
    LET i == gprog.body[g.pc] IN
    /\ UNCHANGED <<fac, heap>>
    /\ CASE i.op = "yield" ->
              /\ g' = [Generator_yield_value(g, i.v) EXCEPT !.pc = g.pc + 1]
              /\ gyielded' = Append(gyielded, Yielded(i.v, 0, 0, 0))
              /\ proc' = proc
              /\ esc = FALSE
         [] i.op = "ret" ->
              /\ g' = [g EXCEPT !.st = "done"]
              /\ UNCHANGED <<gyielded, proc>>
              /\ esc = FALSE
         [] i.op = "throw" ->
              IF Generator_unhandled_exception = "terminate"
              THEN /\ proc' = "terminated"
                   /\ UNCHANGED <<g, gyielded>>
                   /\ esc = FALSE
              ELSE /\ g' = [g EXCEPT !.st = "done"]
                   /\ UNCHANGED <<gyielded, proc>>
                   /\ esc = TRUE

\* mutant: the loop ends when the pool in use is full
generate_while_pool_has_room(f, n) == f.counter < n

\* generate(): while (true)
generate_while(f, n) == TRUE

\* mutant: an index equal to N still counts as a free slot
generate_has_room_inclusive(f, n) == f.counter <= n

\* generate(): m_object_counter < number_of_objects_in_each_pool
generate_has_room(f, n) == f.counter < n

\* mutant: the index is incremented when the coroutine is resumed after
\* the co_yield
generate_increment_when_resumed == "resumed"

\* generate(): m_object_counter++ is evaluated in the operand of co_yield,
\* before the coroutine suspends
generate_increment == "yielding"

\* m_pools.begin()->data()[i]: reading past the end of the pool is
\* undefined and gives an indeterminate object
PoolRead(pool, i) == IF i < Len(pool) THEN pool[i + 1] ELSE Indeterminate

\* the shared_ptr objects that are alive outside the coroutine being
\* resumed: the copies the consumer keeps and the current_value of the
\* second generator
OutsideRefs(kept) == kept \cup {other.current_value}

\* One resumption of GeneratorFactory::generate().
RunFactoryBody(esc) ==
    LET n == gprog.N
        f0 == IF generate_increment = "resumed" /\ g.current_value # NullPtr
              THEN [fac EXCEPT !.counter = @ + 1] ELSE fac
        rolled == ~generate_has_room(f0, n)
        f1 == IF rolled THEN generate_rollover(f0, n) ELSE f0
    IN
    /\ esc = FALSE
    /\ proc' = proc
    /\ IF ~generate_while(f0, n)
       THEN /\ g' = [g EXCEPT !.st = "done"]
            /\ fac' = f0
            /\ UNCHANGED <<heap, gyielded>>
       ELSE IF rolled /\ generate_after_rollover = "suspend"
       THEN /\ fac' = f1
            /\ UNCHANGED <<g, heap, gyielded>>
       ELSE \E a \in FreeAddrs(heap) :
            LET poolNo == Len(f1.pools)
                slot == f1.counter
                h1 == make_shared(heap, a, PoolRead(Head(f1.pools), slot),
                                  poolNo, slot)
            IN
            /\ generate_while(f1, n)
            /\ generate_has_room(f1, n)
            /\ fac' = [f1 EXCEPT !.counter = IF generate_increment = "yielding"
                                             THEN slot + 1 ELSE slot]
            /\ g' = Generator_yield_value(g, a)
            /\ heap' = Reclaim(h1, OutsideRefs(held) \cup {a})
            /\ gyielded' = Append(gyielded, Yielded(a, poolNo, slot, h1[a].val))

\* the body runs from its suspension point to the next one
RunBody(esc) ==
    IF gprog.kind = "finite" THEN RunFiniteBody(esc) ELSE RunFactoryBody(esc)

\* std::coroutine_handle::resume() on the generator's handle by operation
\* op.  Resuming a coroutine that is suspended at its final suspend point
\* is undefined: the process crashes, or the call has no effect.
HandleResume(op, esc) ==
    /\ gres' = [n |-> gres.n + 1,
                n0 |-> IF op = "for" /\ forpc = "none"
                       THEN gres.n ELSE gres.n0,
                from |-> IF op = "for" /\ forpc = "none"
                         THEN Len(gyielded) ELSE gres.from]
    /\ IF g.st = "done"
       THEN /\ esc = FALSE
            /\ proc' \in {"ub", proc}
            /\ UNCHANGED <<g, fac, heap, gyielded>>
       ELSE RunBody(esc)

\* handle.done()
HandleDone(p) == p.st = "done"

\* ------------------------------------------------------ Generator<T>
\* mutant: a get_value() that resumes the coroutine first
Generator_get_value_resumes_first == TRUE

\* Generator::get_value contains no handle.resume()
Generator_get_value_resumes == FALSE

\* Generator::get_value: what the call returns; reading a current_value
\* that was never assigned is undefined
Generator_get_value(p) ==
    IF p.current_value = Indeterminate THEN Undefined ELSE Val(p.current_value)

\* mutant: a sentinel comparison that is true one element early
Iterator_eq_Sentinel_early(p) ==
    p.st = "done" \/ (gprog.kind = "finite" /\ gprog.body[p.pc].op # "yield")

\* Iterator::operator==(Sentinel): handle.done()
Iterator_eq_Sentinel(p) == HandleDone(p)

\* mutant: get_next_value() without the test for completion
Generator_get_next_value_unchecked(p, esc) ==
    IF esc THEN Exc(BodyException) ELSE Generator_get_value(p)

\* Generator::get_next_value after its next(): throw std::out_of_range if
\* handle.done(), else return get_value()
Generator_get_next_value(p, esc) ==
    IF esc THEN Exc(BodyException)
    ELSE IF HandleDone(p) THEN Exc(OutOfRange)
    ELSE Generator_get_value(p)

\* Generator::next and Generator::resume after handle.resume():
\* return !handle.done()
Generator_next(p, esc) ==
    IF esc THEN Exc(BodyException) ELSE Val(IF HandleDone(p) THEN 0 ELSE 1)

\* what an operation gave its caller: nothing if the process ended in it
Outcome(out) == IF proc' = "alive" THEN out ELSE None

Last(op, out) == [op |-> op, out |-> out]

\* the consumer may call a member function of the generator
Callable == proc = "alive" /\ g.st # "none"

\* the consumer may call a member function that resumes the coroutine
Resumable == Callable /\ gres.n < MaxResumptions /\ forpc \in {"none", "over"}

\* the shared_ptr copies the consumer keeps after receiving out
Keep(out) ==
    IF gprog.kind = "factory" /\ out.kind = "val" /\ out.v # NullPtr
    THEN held \cup {out.v} ELSE held

\* the consumer calls the coroutine function: get_return_object,
\* initial_suspend
GenCreate ==
    /\ proc = "alive"
    /\ g.st = "none"
    /\ IF Generator_initial_suspend = "suspend_always"
       THEN /\ g' = [NoGenerator EXCEPT
                        !.st = "suspended",
                        !.current_value = IF gprog.kind = "factory"
                                          THEN NullPtr ELSE Indeterminate]
            /\ UNCHANGED <<proc, fac, heap, gyielded>>
       ELSE \E esc \in BOOLEAN :
            /\ g.pc = 1
            /\ RunBody(esc)
    /\ glast' = Last("create", None)
    /\ UNCHANGED <<gprog, held, forpc, gpulled, gvisited, gres>>
    /\ UNCHANGED <<taskVars, extVars>>

\* gen.next() or gen.resume(): the two have the same body
OpNext ==
    /\ Resumable
    /\ \E esc \in BOOLEAN :
        /\ HandleResume("next", esc)
        /\ glast' = Last("next", Outcome(Generator_next(g', esc)))
    /\ UNCHANGED <<gprog, held, forpc, gpulled, gvisited>>
    /\ UNCHANGED <<taskVars, extVars>>

\* gen.get_value()
OpGetValue ==
    /\ Callable
    /\ IF Generator_get_value_resumes
       THEN /\ gres.n < MaxResumptions
            /\ \E esc \in BOOLEAN : HandleResume("get_value", esc)
       ELSE UNCHANGED <<g, proc, fac, heap, gyielded, gres>>
    /\ glast' = Last("get_value", Outcome(Generator_get_value(g')))
    /\ UNCHANGED <<gprog, held, forpc, gpulled, gvisited>>
    /\ UNCHANGED <<taskVars, extVars>>

\* gen.get_next_value()
OpGetNextValue ==
    /\ Resumable
    /\ \E esc \in BOOLEAN :
        /\ HandleResume("get_next_value", esc)
        /\ glast' = Last("get_next_value",
                         Outcome(Generator_get_next_value(g', esc)))
    /\ gpulled' = Append(gpulled, glast'.out)
    /\ held' = Keep(glast'.out)
    /\ UNCHANGED <<gprog, forpc, gvisited>>
    /\ UNCHANGED <<taskVars, extVars>>

\* for (auto v : gen): begin() resumes once and makes the iterator
ForBegin ==
    /\ Callable
    /\ gres.n < MaxResumptions
    /\ forpc = "none"
    /\ \E esc \in BOOLEAN :
        /\ HandleResume("for", esc)
        /\ forpc' = IF proc' = "alive" /\ ~esc THEN "test" ELSE "over"
    /\ glast' = Last("for_begin", None)
    /\ UNCHANGED <<gprog, held, gpulled, gvisited>>
    /\ UNCHANGED <<taskVars, extVars>>

\* the loop condition: it != end()
ForTest ==
    /\ Callable
    /\ forpc = "test"
    /\ forpc' = IF Iterator_eq_Sentinel(g) THEN "over" ELSE "body"
    /\ glast' = Last("for_test", Val(IF Iterator_eq_Sentinel(g) THEN 1 ELSE 0))
    /\ UNCHANGED <<gprog, g, proc, fac, heap, held, gpulled, gyielded,
                   gvisited, gres>>
    /\ UNCHANGED <<taskVars, extVars>>

\* the loop body sees *it, then ++it resumes the coroutine
ForBody ==
    /\ Callable
    /\ gres.n < MaxResumptions
    /\ forpc = "body"
    /\ gvisited' = Append(gvisited, g.current_value)
    /\ \E esc \in BOOLEAN :
        /\ HandleResume("for", esc)
        /\ forpc' = IF proc' = "alive" /\ ~esc THEN "test" ELSE "over"
    /\ glast' = Last("for_body", None)
    /\ UNCHANGED <<gprog, held, gpulled>>
    /\ UNCHANGED <<taskVars, extVars>>

\* the consumer lets go of a handle it kept
DropHandle(a) ==
    /\ proc = "alive"
    /\ a \in held
    /\ held' = held \ {a}
    /\ heap' = Reclaim(heap, OutsideRefs(held \ {a}) \cup {g.current_value})
    /\ glast' = Last("drop", None)
    /\ UNCHANGED <<gprog, g, proc, fac, forpc, gpulled, gyielded, gvisited,
                   gres>>
    /\ UNCHANGED <<taskVars, extVars>>

\* the consumer writes through the handle it has just received:
\* *handle = 7 (once in a scenario)
WriteThrough(a) ==
    /\ proc = "alive"
    /\ a \in held
    /\ glast = Last("get_next_value", Val(a))
    /\ \A b \in Addrs : heap[b].val = DefaultT
    /\ heap' = [heap EXCEPT ![a].val = Written7]
    /\ glast' = Last("write", None)
    /\ UNCHANGED <<gprog, g, proc, fac, held, forpc, gpulled, gyielded,
                   gvisited, gres>>
    /\ UNCHANGED <<taskVars, extVars>>

\* ----------------------------------------------------- GenInit, GenNext
\* the task side at rest
TaskIdle ==
    /\ prog = [t \in Tasks |-> Unused]
    /\ st = [t \in Tasks |-> "none"]
    /\ pc = [t \in Tasks |-> 1]
    /\ acc = [t \in Tasks |-> 0]
    /\ named = [t \in Tasks |-> FALSE]
    /\ promise = [t \in Tasks |-> FreshPromise]
    /\ hst = "none"
    /\ hp = FreshSyncWaitPromise
    /\ htmp = 0
    /\ stack = [th \in Threads |-> <<>>]
    /\ ready = {}
    /\ mainpc = "start"
    /\ outcome = None
    /\ returned = [t \in Tasks |-> None]
    /\ obs = [t \in Tasks |-> <<>>]
    /\ resumes = [t \in Tasks |-> 0]
    /\ log = <<>>

\* the generator side before the consumer calls the coroutine function
GenFresh ==
    /\ g = NoGenerator
    /\ proc = "alive"
    /\ heap = FreshHeap
    /\ held = {}
    /\ forpc = "none"
    /\ glast = Last("none", None)
    /\ gpulled = <<>>
    /\ gyielded = <<>>
    /\ gvisited = <<>>
    /\ gres = [n |-> 0, n0 |-> 0, from |-> 0]

\* a Generator<int> scenario
GenInit ==
    /\ TaskIdle
    /\ ExtIdle
    /\ gprog \in GenScenarios
    /\ fac = [pools |-> <<>>, counter |-> 0]
    /\ GenFresh

GenNext ==
    \/ GenCreate
    \/ OpNext
    \/ OpGetValue
    \/ OpGetNextValue
    \/ ForBegin
    \/ ForTest
    \/ ForBody

GenSpec == GenInit /\ [][GenNext]_vars

\* a GeneratorFactory scenario: GeneratorFactory() has made the first pool
FacInit ==
    /\ TaskIdle
    /\ ExtIdle
    /\ gprog \in FacScenarios
    /\ fac = [pools |-> <<FreshPool(gprog.N)>>, counter |-> 0]
    /\ GenFresh

FacNext ==
    \/ GenCreate
    \/ OpNext
    \/ OpGetNextValue
    \/ \E a \in Addrs :
        \/ DropHandle(a)
        \/ WriteThrough(a)

FacSpec == FacInit /\ [][FacNext]_vars

\* ------------------------------------- two generators of one factory
\* The consumer turns to the other Generator made by the same factory (or
\* to the place for one that is yet to be made): from here on its calls
\* go to that one.  generate() keeps nothing in its frame: the pools and
\* the index are members of the factory.
SwitchGenerator ==
    /\ proc = "alive"
    /\ g.st # "none" \/ other.st # "none"
    /\ g' = other
    /\ other' = g
    /\ glast' = Last("switch", None)
    /\ UNCHANGED <<gprog, proc, fac, heap, held, forpc, gpulled, gyielded,
                   gvisited, gres>>
    /\ UNCHANGED <<taskVars, loop, own, cli, hex>>

Fac2Next ==
    \/ GenCreate
    \/ OpNext
    \/ OpGetNextValue
    \/ SwitchGenerator

Fac2Spec == FacInit /\ [][Fac2Next]_vars

\* ------------------------------- generate(), one loop iteration a step
\* the pools a scenario may allocate
MaxPools == MaxResumptions + 2

\* a factory scenario for every N from 0
LoopInit ==
    /\ TaskIdle
    /\ ExtIdle
    /\ gprog \in {FactoryBody(n) : n \in 0..MaxPoolSize}
    /\ fac = [pools |-> <<FreshPool(gprog.N)>>, counter |-> 0]
    /\ GenFresh

\* gen.next(): handle.resume() enters the body of generate()
LoopResume ==
    /\ proc = "alive"
    /\ g.st = "suspended"
    /\ ~loop.running
    /\ gres.n < MaxResumptions
    /\ loop' = [running |-> TRUE, allocs |-> 0]
    /\ gres' = [gres EXCEPT !.n = @ + 1]
    /\ glast' = Last("resume", None)
    /\ UNCHANGED <<gprog, g, proc, fac, heap, held, forpc, gpulled, gyielded,
                   gvisited>>
    /\ UNCHANGED <<taskVars, other, own, cli, hex>>

\* one iteration of the while loop of generate(): the co_yield, which
\* ends the resumption and lets next() return true, or the else branch
LoopIterate ==
    LET n == gprog.N IN
    /\ loop.running
    /\ IF ~generate_while(fac, n)
       THEN /\ g' = [g EXCEPT !.st = "done"]
            /\ loop' = [loop EXCEPT !.running = FALSE]
            /\ glast' = Last("next", Val(0))
            /\ UNCHANGED <<fac, heap, gyielded>>
       ELSE IF generate_has_room(fac, n)
       THEN \E a \in FreeAddrs(heap) :
            LET poolNo == Len(fac.pools)
                slot == fac.counter
                h1 == make_shared(heap, a, PoolRead(Head(fac.pools), slot),
                                  poolNo, slot)
            IN
            /\ fac' = [fac EXCEPT !.counter = slot + 1]
            /\ g' = Generator_yield_value(g, a)
            /\ heap' = Reclaim(h1, OutsideRefs(held) \cup {a})
            /\ gyielded' = Append(gyielded, Yielded(a, poolNo, slot, h1[a].val))
            /\ loop' = [loop EXCEPT !.running = FALSE]
            /\ glast' = Last("next", Val(1))
       ELSE /\ Len(fac.pools) < MaxPools
            /\ fac' = generate_rollover(fac, n)
            /\ loop' = [loop EXCEPT !.allocs = @ + 1]
            /\ glast' = Last("rollover", None)
            /\ UNCHANGED <<g, heap, gyielded>>
    /\ UNCHANGED <<gprog, proc, held, forpc, gpulled, gvisited, gres>>
    /\ UNCHANGED <<taskVars, other, own, cli, hex>>

LoopNext ==
    \/ GenCreate
    \/ LoopResume
    \/ LoopIterate

LoopSpec == LoopInit /\ [][LoopNext]_vars

\* ------------------------------------------------------------ main()
\* the six scaffolding steps in the order main() calls them, with the
\* directories each creates and the files each writes
ScaffoldingSteps ==
    <<[name |-> "create_directory_structure", dirs |-> 8, files |-> 0],
      [name |-> "create_source_files", dirs |-> 0, files |-> 1],
      [name |-> "copy_template_headers", dirs |-> 0, files |-> 4],
      [name |-> "create_build_system", dirs |-> 0, files |-> 1],
      [name |-> "create_vscode_config", dirs |-> 1, files |-> 2],
      [name |-> "create_readme", dirs |-> 0, files |-> 1]>>

\* main() is entered with argc arguments (argv[argc] is a null pointer);
\* argv[1] is empty, a plain path, or begins with ~; HOME is set or not;
\* the path main() tests exists, does not, or cannot be examined; one of
\* the steps may throw
MainInit ==
    /\ TaskIdle
    /\ GenIdle
    /\ other = NoGenerator
    /\ loop = NoLoop
    /\ own = NoOwners
    /\ hex = NoConversion
    /\ \E argc \in 0..MaxArgc :
       \E path \in (IF argc >= 2 THEN {"empty", "plain", "tilde"} ELSE {"none"}) :
       \E home \in BOOLEAN :
       \E exists \in (IF path = "empty" THEN {"no"} ELSE {"yes", "no", "error"}) :
       \E failAt \in 0..Len(ScaffoldingSteps) :
            cli = Main0([argc |-> argc, path |-> path, home |-> home,
                         exists |-> exists, failAt |-> failAt])

\* if (argc != 2)
main_wrong_argc(argc) == argc # 2

\* if (argc != 2): the usage message is built from argv[0] and thrown.
\* With argc = 0, argv[0] is a null pointer and errmsg += argv[0] is
\* undefined: the process crashes, or goes on to the throw.
MainCheckArgs ==
    /\ cli.pc = "args"
    /\ IF main_wrong_argc(cli.argc)
       THEN IF cli.argc = 0
            THEN \E next \in {"crashed", "catch"} : cli' = [cli EXCEPT !.pc = next]
            ELSE cli' = [cli EXCEPT !.pc = "catch"]
       ELSE cli' = [cli EXCEPT !.pc = "path"]
    /\ UNCHANGED <<taskVars, genVars, other, loop, own, hex>>

\* project_path = argv[1]; if (project_path.front() == '~') and HOME is
\* set, ~ is replaced by it.  front() of an empty string is undefined:
\* the process crashes, or the test is false.
MainExpandPath ==
    /\ cli.pc = "path"
    /\ IF cli.path = "empty"
       THEN \E next \in {"crashed", "exists"} : cli' = [cli EXCEPT !.pc = next]
       ELSE cli' = [cli EXCEPT !.pc = "exists"]
    /\ UNCHANGED <<taskVars, genVars, other, loop, own, hex>>

\* if (fs::exists(project_path)) throw; fs::exists itself throws
\* filesystem_error when the path cannot be examined
MainCheckExists ==
    /\ cli.pc = "exists"
    /\ cli' = [cli EXCEPT !.pc = IF cli.exists = "no" THEN "steps" ELSE "catch"]
    /\ UNCHANGED <<taskVars, genVars, other, loop, own, hex>>

\* the next scaffolding step runs: it creates its directories and writes
\* its files, or throws
MainStep ==
    /\ cli.pc = "steps"
    /\ cli.steps < Len(ScaffoldingSteps)
    /\ LET s == ScaffoldingSteps[cli.steps + 1] IN
       cli' = IF cli.failAt = cli.steps + 1
              THEN [cli EXCEPT !.steps = @ + 1, !.pc = "catch"]
              ELSE [cli EXCEPT !.steps = @ + 1,
                               !.dirs = @ + s.dirs,
                               !.files = @ + s.files]
    /\ UNCHANGED <<taskVars, genVars, other, loop, own, hex>>

\* return EXIT_SUCCESS
MainSuccess ==
    /\ cli.pc = "steps"
    /\ cli.steps = Len(ScaffoldingSteps)
    /\ cli' = [cli EXCEPT !.pc = "done", !.ret = "EXIT_SUCCESS"]
    /\ UNCHANGED <<taskVars, genVars, other, loop, own, hex>>

\* catch (const std::exception&): return EXIT_FAILURE
MainCatch ==
    /\ cli.pc = "catch"
    /\ cli' = [cli EXCEPT !.pc = "done", !.ret = "EXIT_FAILURE"]
    /\ UNCHANGED <<taskVars, genVars, other, loop, own, hex>>

MainNext ==
    \/ MainCheckArgs
    \/ MainExpandPath
    \/ MainCheckExists
    \/ MainStep
    \/ MainSuccess
    \/ MainCatch

MainSpec == MainInit /\ [][MainNext]_vars

\* ------------------------------------- convert::decimal_to_hexadecimal
\* the switch on rem in the loop: cases 10 to 15 emplace a letter, the
\* default case emplaces nothing
hex_switch(rem) ==
    CASE rem = 10 -> <<"A">>
      [] rem = 11 -> <<"B">>
      [] rem = 12 -> <<"C">>
      [] rem = 13 -> <<"D">>
      [] rem = 14 -> <<"E">>
      [] rem = 15 -> <<"F">>
      [] OTHER -> <<>>

RECURSIVE hex_loop(_, _)
\* while (n != 0) { rem = n % 16; switch (rem) ...; n /= 16; }
hex_loop(n, hexval) ==
    IF n = 0 THEN hexval
    ELSE hex_loop(n \div 16, hexval \o hex_switch(n % 16))

\* std::ranges::reverse
reverse(s) == [i \in 1..Len(s) |-> s[Len(s) + 1 - i]]

\* decimal_to_hexadecimal(n) for n >= 0
decimal_to_hexadecimal(n) ==
    IF n = 0 THEN <<"0", "x", "0">>
    ELSE reverse(hex_loop(n, <<>>) \o <<"x", "0">>)

\* a call with an argument from 0 to MaxHexInput
HexInit ==
    /\ TaskIdle
    /\ GenIdle
    /\ other = NoGenerator
    /\ loop = NoLoop
    /\ own = NoOwners
    /\ cli = NoMain
    /\ \E n \in 0..MaxHexInput : hex = [pc |-> "call", n |-> n, out |-> <<>>]

\* the call returns
HexCall ==
    /\ hex.pc = "call"
    /\ hex' = [hex EXCEPT !.pc = "done", !.out = decimal_to_hexadecimal(hex.n)]
    /\ UNCHANGED <<taskVars, genVars, other, loop, own, cli>>

HexNext == HexCall

HexSpec == HexInit /\ [][HexNext]_vars

\* ------------------------------------------- ownership of the frames
\* Task(Task&& t) : handle{ t.handle } {}, the same for Task<void> and
\* SyncWaitTask: what the new object and the source hold afterwards
Task_move_ctor(h) == [to |-> h, from |-> h]

\* Generator(Generator&& other) : handle(other.handle)
\* { other.handle = nullptr; }
Generator_move_ctor(h) == [to |-> h, from |-> NullFrame]

\* the move constructor of the scenario's class
MoveCtor(kind, h) ==
    IF kind = "Generator" THEN Generator_move_ctor(h) ELSE Task_move_ctor(h)

\* Generator& operator=(Generator&& other): handle = other.handle;
\* other.handle = nullptr, on the objects o and src (which may be one)
Generator_move_assign(objs, o, src) ==
    [objs EXCEPT ![o].handle = objs[src].handle,
                 ![src].handle = NullFrame]

\* ~Task, ~SyncWaitTask, ~Generator: if (handle) handle.destroy()
Owner_dtor(frames, h) ==
    IF h # NullFrame THEN [frames EXCEPT ![h].destroyed = @ + 1] ELSE frames

\* an ownership scenario of one of the four classes
OwnInit ==
    /\ TaskIdle
    /\ GenIdle
    /\ other = NoGenerator
    /\ loop = NoLoop
    /\ cli = NoMain
    /\ hex = NoConversion
    /\ \E kind \in OwnerKinds : own = Owners0(kind)

\* a call of a coroutine function: the frame is allocated and
\* get_return_object makes the object that holds its handle
OwnCreate(o, f) ==
    /\ own.proc = "alive"
    /\ own.obj[o].st = "unborn"
    /\ ~own.frame[f].made
    /\ \A f2 \in Frames : f2 < f => own.frame[f2].made
    /\ own' = [own EXCEPT !.obj[o] = [st |-> "alive", handle |-> f],
                          !.frame[f].made = TRUE]
    /\ UNCHANGED <<taskVars, genVars, other, loop, cli, hex>>

\* T o{ std::move(src) }
OwnMoveConstruct(o, src) ==
    /\ own.proc = "alive"
    /\ own.obj[o].st = "unborn"
    /\ own.obj[src].st = "alive"
    /\ LET r == MoveCtor(own.kind, own.obj[src].handle) IN
       own' = [own EXCEPT !.obj[o] = [st |-> "alive", handle |-> r.to],
                          !.obj[src].handle = r.from]
    /\ UNCHANGED <<taskVars, genVars, other, loop, cli, hex>>

\* o = std::move(src): only Generator has a move assignment
OwnMoveAssign(o, src) ==
    /\ own.proc = "alive"
    /\ own.kind = "Generator"
    /\ own.obj[o].st = "alive"
    /\ own.obj[src].st = "alive"
    /\ own' = [own EXCEPT !.obj = Generator_move_assign(own.obj, o, src)]
    /\ UNCHANGED <<taskVars, genVars, other, loop, cli, hex>>

\* the object o goes out of scope.  Destroying a frame that was already
\* destroyed is undefined: the process crashes, or goes on.
OwnRelease(o) ==
    /\ own.proc = "alive"
    /\ own.obj[o].st = "alive"
    /\ LET h == own.obj[o].handle
           again == h # NullFrame /\ own.frame[h].destroyed > 0
       IN
       \E p \in (IF again THEN {"ub", "alive"} ELSE {"alive"}) :
       own' = [own EXCEPT !.obj[o].st = "gone",
                          !.frame = Owner_dtor(own.frame, h),
                          !.proc = p]
    /\ UNCHANGED <<taskVars, genVars, other, loop, cli, hex>>

OwnNext ==
    \E o \in Objs :
        \/ \E f \in Frames : OwnCreate(o, f)
        \/ \E src \in Objs : OwnMoveConstruct(o, src)
        \/ \E src \in Objs : OwnMoveAssign(o, src)
        \/ OwnRelease(o)

OwnSpec == OwnInit /\ [][OwnNext]_vars

\* ------------------------------------------------- Generator properties
\* the values a finite body yields, in order
BodyValues == [i \in 1..(Len(gprog.body) - 1) |-> gprog.body[i].v]

\* the body ends by reaching its end / by a throw
BodyReturns == gprog.kind = "finite" /\ gprog.body[Len(gprog.body)].op = "ret"
BodyThrows == gprog.kind = "finite" /\ gprog.body[Len(gprog.body)].op = "throw"

\* every resumption so far was made by get_next_value()
OnlyGetNextValue == Len(gpulled) = gres.n /\ forpc = "none"

IsPrefix(p, q) == Len(p) <= Len(q) /\ \A i \in 1..Len(p) : p[i] = q[i]

\* C11: a body that yields k values and returns, driven by
\* get_next_value() alone: call i <= k returns the i-th value yielded, call
\* k + 1 raises std::out_of_range
C11_ExactlyK ==
    BodyReturns /\ OnlyGetNextValue =>
        \A i \in 1..Len(gpulled) :
            /\ i <= Len(BodyValues) => gpulled[i] = Val(BodyValues[i])
            /\ i = Len(BodyValues) + 1 => gpulled[i] = Exc(OutOfRange)

C11_Witness ==
    /\ BodyReturns /\ OnlyGetNextValue
    /\ BodyValues = <<10, 32>>
    /\ gpulled = <<Val(10), Val(32), Exc(OutOfRange)>>

\* C12: every get_next_value() on a generator that has completed raises
\* std::out_of_range, and the generator stays completed
C12_ExhaustedEveryTime ==
    BodyReturns /\ gres.n > Len(BodyValues) + 1
                /\ glast.op = "get_next_value" =>
        /\ glast.out = Exc(OutOfRange)
        /\ g.st = "done"
        /\ proc = "alive"

\* C13: a range-for over a fresh generator whose body yields k values and
\* returns visits these k values in order, and it == end() is true exactly
\* when the body has completed
C13_VisitsAll ==
    BodyReturns /\ forpc # "none" /\ gres.n0 = 0 =>
        /\ IsPrefix(gvisited, BodyValues)
        /\ forpc = "over" => gvisited = BodyValues
        /\ forpc = "body" =>
            /\ ~HandleDone(g)
            /\ g.current_value = BodyValues[Len(gvisited) + 1]
        /\ forpc = "over" => HandleDone(g)
        /\ glast.op = "for_test" => (glast.out = Val(1) <=> HandleDone(g))

C13_Witness ==
    /\ BodyReturns /\ gres.n0 = 0
    /\ forpc = "over"
    /\ gvisited = <<10, 32>>

\* C14: making the generator runs nothing of the body; every resumption
\* goes on from the last suspension point to the next yield or to the end
\* of the body; a range-for begun after j values were pulled visits the
\* values j+1..k
C14_LazyForwardOnly ==
    gprog.kind = "finite" =>
        /\ gres.n = 0 => gyielded = <<>> /\ g.pc = 1
        /\ IsPrefix([i \in 1..Len(gyielded) |-> gyielded[i].v], BodyValues)
        /\ g.pc = Len(gyielded) + 1
        /\ gres.n <= Len(BodyValues) => Len(gyielded) = gres.n
        /\ gres.n > Len(BodyValues) =>
            /\ Len(gyielded) = Len(BodyValues)
            /\ BodyReturns => HandleDone(g)
        /\ BodyReturns /\ forpc # "none" /\ gres.n0 = gres.from
                       /\ gres.from <= Len(BodyValues) =>
            /\ IsPrefix(gvisited,
                        SubSeq(BodyValues, gres.from + 1, Len(BodyValues)))
            /\ forpc = "over" =>
                gvisited = SubSeq(BodyValues, gres.from + 1, Len(BodyValues))

C14_Witness ==
    /\ BodyReturns
    /\ BodyValues = <<10, 32>>
    /\ gres.from = 1 /\ gres.n0 = 1
    /\ forpc = "over"
    /\ gvisited = <<32>>

\* C15: get_value() returns the value of the latest yield and changes
\* nothing: not the suspension point, not done, not current_value; two
\* calls in a row return the same
C15_GetValueNoAdvance ==
    [][glast'.op = "get_value" =>
        /\ g' = g
        /\ gres' = gres
        /\ gyielded' = gyielded
        /\ proc' = proc
        /\ gyielded # <<>> => glast'.out = Val(gyielded[Len(gyielded)].v)
        /\ glast.op = "get_value" => glast'.out = glast.out]_vars

C15_Witness ==
    /\ glast.op = "get_value"
    /\ Len(gyielded) = 2
    /\ glast.out = Val(gyielded[2].v)
    /\ g.st = "suspended"

\* C16: an exception that leaves the body ends the process: it is not
\* kept in the generator, the operation that resumed gives its caller
\* nothing, and no operation runs afterwards
C16_Fatal ==
    BodyThrows /\ gres.n > Len(BodyValues) =>
        /\ proc = "terminated"
        /\ gres.n = Len(BodyValues) + 1
        /\ glast.out = None
        /\ g.st = "suspended"
        /\ g.current_value \in {Indeterminate} \cup Values
        /\ ~ENABLED GenNext

C16_Witness ==
    /\ BodyThrows
    /\ Len(BodyValues) = 1
    /\ proc = "terminated"
    /\ glast.op = "get_next_value"

\* ------------------------------------------ GeneratorFactory properties
\* the pool allocated p-th (the newest pool is the first of m_pools)
PoolNo(p) == fac.pools[Len(fac.pools) - p + 1]

\* the resumption that yielded value i found the cursor index equal to N
FoundIndexN(i) == i > 1 /\ gyielded[i - 1].slot = gprog.N - 1

C18_SlotOfKth ==
    /\ \A k \in 1..Len(gyielded) :
        /\ gyielded[k].slot = (k - 1) % gprog.N
        /\ gyielded[k].pool = ((k - 1) \div gprog.N) + 1
        /\ gyielded[k].v # NullPtr
    /\ Len(fac.pools) = IF gyielded = <<>> THEN 1
                        ELSE ((Len(gyielded) - 1) \div gprog.N) + 1
    /\ \A p \in 1..Len(fac.pools) : Len(PoolNo(p)) = gprog.N

C18_Witness ==
    /\ gprog.N = 4
    /\ Len(gyielded) = 5
    /\ gyielded[5].pool = 2 /\ gyielded[5].slot = 0
    /\ Len(fac.pools) = 2
    /\ Len(gpulled) = 5

\* C19: a valid handle within the first N+1 resumptions; the handles
\* yielded from one pool have pairwise distinct addresses and refer to a
\* default-initialized T
C19_DistinctInPool ==
    /\ gres.n >= 1 => \E i \in 1..Len(gyielded) :
                            i <= gprog.N + 1 /\ gyielded[i].v # NullPtr
    /\ \A i, j \in 1..Len(gyielded) :
        i < j /\ gyielded[i].pool = gyielded[j].pool =>
            gyielded[i].v # gyielded[j].v
    /\ \A i \in 1..Len(gyielded) : gyielded[i].obj = DefaultT

\* C20: a handle and the pool slot it was made from are one object: what
\* is written through the handle is in the slot
C20_Aliases ==
    \A a \in held :
        heap[a].val = PoolNo(heap[a].pool)[heap[a].slot + 1]

\* C21: the sequence of generate() (N >= 1) never completes: its coroutine
\* is never done, next() and resume() return true, the iterator never
\* equals the sentinel, and get_next_value() never raises Exhausted
C21_NeverCompletes ==
    /\ proc = "alive"
    /\ ~HandleDone(g)
    /\ ~Iterator_eq_Sentinel(g)
    /\ glast.op = "next" => glast.out = Val(1)
    /\ \A i \in 1..Len(gpulled) :
          gpulled[i].kind = "val" /\ gpulled[i].v \in Addrs

\* as many resumptions as the bound allows, the last of them a next(),
\* with a get_next_value() and a rollover among them
C21_Witness ==
    /\ gres.n = MaxResumptions
    /\ glast = Last("next", Val(1))
    /\ gpulled # <<>>
    /\ Len(fac.pools) >= 2

PoolsFor(k) == IF k = 0 THEN 1 ELSE (k + gprog.N - 1) \div gprog.N

\* C27: two generators of one factory share one cursor: however their
\* resumptions interleave, no (pool, slot) pair is handed out twice, the
\* index stays within 0..N, every slot read is below N, and the number of
\* pools is max(1, ceil(values handed out / N))
C27_SharedCursor ==
    /\ \A i, j \in 1..Len(gyielded) :
          i # j => <<gyielded[i].pool, gyielded[i].slot>>
                     # <<gyielded[j].pool, gyielded[j].slot>>
    /\ fac.counter \in 0..gprog.N
    /\ \A i \in 1..Len(gyielded) : gyielded[i].slot \in 0..(gprog.N - 1)
    /\ Len(fac.pools) = PoolsFor(Len(gyielded))

\* both generators have yielded, the one after the other and back, and a
\* pool was prepended
C27_Witness ==
    /\ g.st = "suspended" /\ g.current_value \in Addrs
    /\ other.st = "suspended" /\ other.current_value \in Addrs
    /\ Len(gyielded) >= 3
    /\ Len(fac.pools) >= 2

\* C28: with N = 0 a resumption never yields and never returns: it
\* prepends one empty pool after another; with N >= 1 every resumption
\* allocates at most one pool and then yields
C28_ZeroNeverYields ==
    /\ gprog.N = 0 =>
          /\ gyielded = <<>>
          /\ g.current_value \in {Indeterminate, NullPtr}
          /\ glast.op # "next"
          /\ gres.n <= 1
          /\ gres.n = 1 => loop.running
          /\ Len(fac.pools) = 1 + loop.allocs
          /\ \A i \in 1..Len(fac.pools) : fac.pools[i] = <<>>
    /\ gprog.N >= 1 =>
          /\ loop.allocs <= 1
          /\ loop.running /\ loop.allocs = 1 => generate_has_room(fac, gprog.N)
          /\ ~loop.running => Len(gyielded) = gres.n

\* N = 0: the one resumption has allocated pools up to the bound and is
\* still under way
C28_Witness ==
    /\ gprog.N = 0
    /\ loop.running
    /\ loop.allocs = MaxPools - 1
    /\ Len(fac.pools) = MaxPools

\* the objects that hold a handle to frame f
Owners(f) == {o \in Objs : own.obj[o].st = "alive" /\ own.obj[o].handle = f}

\* every object that was made is gone
AllReleased == \A o \in Objs : own.obj[o].st # "alive"

\* every frame has at most one owner and is destroyed at most once, and
\* exactly once when every object is gone
ExclusivelyOwned ==
    \A f \in Frames :
        /\ Cardinality(Owners(f)) <= 1
        /\ own.frame[f].destroyed <= 1
        /\ own.frame[f].made /\ AllReleased => own.frame[f].destroyed = 1

\* C23: the frame of a Task (and of a SyncWaitTask) is owned by one object
\* at a time: after a move construction one of the two objects owns it,
\* and it is destroyed exactly once
C23_TaskOwnedOnce == own.kind \in TaskKinds => ExclusivelyOwned

\* C24: the frame of a generator is owned by one Generator: after any
\* move constructions and move assignments every frame has at most one
\* owner, and when all Generators are gone every frame was destroyed
\* exactly once
C24_GeneratorOwnedOnce == own.kind = "Generator" => ExclusivelyOwned

\* C25: the helper coroutine is never resumed after it has delivered its
\* outcome: once it has suspended at the co_yield or at final_suspend it
\* runs on no thread again, so the assert(false) after the co_yield and
\* the one in return_void are never reached
C25_HelperNotResumed ==
    /\ hst # "assert_false"
    /\ Delivered => ~OnSomeStack(Helper)
    /\ resumes[Root] <= 1

\* sync_wait has returned a value: the helper was destroyed while it was
\* suspended at its co_yield
C25_Witness ==
    /\ hst = "destroyed"
    /\ mainpc = "done"
    /\ hp.value = "tmp"
    /\ resumes[Root] = 1

\* C26: whenever a task reaches its final suspension point, the
\* continuation control transfers to is a suspended coroutine that an
\* await recorded, never a null handle, whether the task was awaited or
\* its handle was resumed
C26_ContinuationNeverNull ==
    /\ \A t \in Tasks :
          st[t] \in {"at_final", "final"} =>
              promise[t].continuation # NullHandle
    /\ \A th \in Threads : ~Running(th, NullHandle)

\* C29: when main() is entered with other than exactly one argument, or
\* the target path exists, it creates no directory, writes no file, runs
\* none of the six scaffolding steps and returns EXIT_FAILURE
C29_RejectsCleanly ==
    cli.argc # 2 \/ cli.exists = "yes" =>
        /\ cli.dirs = 0
        /\ cli.files = 0
        /\ cli.steps = 0
        /\ cli.pc \in {"done", "crashed"} => cli.ret = "EXIT_FAILURE"

\* the sixteen uppercase hexadecimal digits
HexDigits ==
    <<"0", "1", "2", "3", "4", "5", "6", "7", "8", "9",
      "A", "B", "C", "D", "E", "F">>

RECURSIVE HexNumeral(_)
\* the hexadecimal numeral of n, most significant digit first
HexNumeral(n) ==
    IF n < 16 THEN <<HexDigits[n + 1]>>
    ELSE Append(HexNumeral(n \div 16), HexDigits[(n % 16) + 1])

\* C30: decimal_to_hexadecimal(n) returns the characters 0x followed by
\* the uppercase hexadecimal digits of n, most significant first, one
\* character for every digit (0 -> 0x0, 16 -> 0x10, 255 -> 0xFF)
C30_HexNumeral ==
    hex.pc = "done" => hex.out = <<"0", "x">> \o HexNumeral(hex.n)

====
